---- MODULE Spec2Model ----
(***************************************************************************)
(* Model of the stock price agent's indicator pipeline and pattern         *)
(* detector (src/processors/data_processor.py, class StockDataProcessor)   *)
(* as driven by src/main.py, and of the command loop of src/main.py with   *)
(* the ingestion adapter (src/agents/stock_agent.py) and the narrative     *)
(* layer (src/agents/gemini_agent.py) it calls.                            *)
(*                                                                         *)
(* A DataFrame is a function from column names to equally long sequences   *)
(* of values.  DataFrames live in a heap of objects, and the program's     *)
(* variables hold references into it, so that in-place modification and    *)
(* aliasing are visible.  A numeric cell is an IEEE-like value: a rational *)
(* n/d in lowest terms, NaN ("missing"), plus or minus infinity, or the    *)
(* square root of a rational (the standard deviation).                     *)
(***************************************************************************)
EXTENDS Integers, Sequences, FiniteSets, TLC

\* the indicator pipeline
VARIABLES data_list, heap, df, df_with_features, stats, patterns, rerun, pc

\* the command loop, the request in flight and what the agents returned
VARIABLES loop, command, todo, pending, call, req, log, response, outcome,
          result, analysis, llm_calls, exit_cause, reported

pipe_vars == <<data_list, heap, df, df_with_features, stats, patterns, rerun, pc>>

agent_vars == <<loop, command, todo, pending, call, req, log, response, outcome,
                result, analysis, llm_calls, exit_cause, reported>>

vars == <<data_list, heap, df, df_with_features, stats, patterns, rerun, pc,
          loop, command, todo, pending, call, req, log, response, outcome,
          result, analysis, llm_calls, exit_cause, reported>>

----------------------------------------------------------------------------
(* Bounds of the model *)

\* longest series of the trend-shaped inputs (needs > 20 for ma_20)
MaxRows == 21
\* longest list of the free-form inputs (duplicate dates, zero opens, text)
MaxShort == 2
\* longest series of the volume-shaped inputs (needs > 5 for volume_ma)
MaxVolumeRows == 7
\* most entries of the "results" list of a response body
MaxResults == 1

----------------------------------------------------------------------------
(* Numeric values *)

Abs(x) == IF x < 0 THEN -x ELSE x

RECURSIVE Gcd(_, _)
Gcd(a, b) == IF b = 0 THEN a ELSE Gcd(b, a % b)

NaN == [k |-> "nan", n |-> 0, d |-> 1]
PInf == [k |-> "inf", n |-> 1, d |-> 1]
NInf == [k |-> "inf", n |-> -1, d |-> 1]

\* the rational n/d (d # 0) in lowest terms with a positive denominator
Num(n, d) ==
    LET s == IF d < 0 THEN -1 ELSE 1
        g == Gcd(Abs(n), Abs(d))
    IN  [k |-> "num", n |-> (s * n) \div g, d |-> (s * d) \div g]

Int2F(i) == [k |-> "num", n |-> i, d |-> 1]

IsNum(x) == x.k = "num"
IsNaN(x) == x.k = "nan"
IsInf(x) == x.k = "inf"

\* sign of a non-NaN value
Sgn(x) == IF x.n > 0 THEN 1 ELSE IF x.n < 0 THEN -1 ELSE 0

FNeg(x) ==
    CASE IsNaN(x) -> NaN
      [] IsInf(x) -> [x EXCEPT !.n = -x.n]
      [] OTHER    -> [x EXCEPT !.n = -x.n]

FAdd(x, y) ==
    CASE IsNaN(x) \/ IsNaN(y) -> NaN
      [] IsInf(x) /\ IsInf(y) -> IF x.n = y.n THEN x ELSE NaN
      [] IsInf(x) -> x
      [] IsInf(y) -> y
      [] OTHER    -> Num(x.n * y.d + y.n * x.d, x.d * y.d)

FSub(x, y) == FAdd(x, FNeg(y))

FMul(x, y) ==
    CASE IsNaN(x) \/ IsNaN(y) -> NaN
      [] IsInf(x) \/ IsInf(y) ->
            IF Sgn(x) * Sgn(y) = 0 THEN NaN
            ELSE IF Sgn(x) * Sgn(y) > 0 THEN PInf ELSE NInf
      [] OTHER    -> Num(x.n * y.n, x.d * y.d)

\* numpy true division: x/0 is an infinity with the sign of x, 0/0 is NaN
FDivNoInf(x, y) ==
    CASE IsNaN(x) \/ IsNaN(y) -> NaN
      [] IsInf(x) \/ IsInf(y) -> NaN
      [] y.n = 0  -> NaN
      [] OTHER    -> Num(x.n * y.d, x.d * y.n)

FDiv(x, y) ==
    CASE IsNaN(x) \/ IsNaN(y) -> NaN
      [] IsInf(x) /\ IsInf(y) -> NaN
      [] IsInf(x) -> IF Sgn(y) < 0 THEN FNeg(x) ELSE x
      [] IsInf(y) -> Int2F(0)
      [] y.n = 0  -> IF x.n = 0 THEN NaN ELSE IF x.n > 0 THEN PInf ELSE NInf
      [] OTHER    -> Num(x.n * y.d, x.d * y.n)

\* comparisons: any comparison with NaN is false
FLt(x, y) ==
    /\ ~IsNaN(x) /\ ~IsNaN(y)
    /\ IF IsInf(x) \/ IsInf(y)
       THEN (IsInf(x) /\ x.n < 0 /\ ~(IsInf(y) /\ y.n < 0))
            \/ (IsInf(y) /\ y.n > 0 /\ ~(IsInf(x) /\ x.n > 0))
       ELSE x.n * y.d < y.n * x.d

FGt(x, y) == FLt(y, x)
FLe(x, y) == ~IsNaN(x) /\ ~IsNaN(y) /\ ~FLt(y, x)
FGe(x, y) == FLe(y, x)

\* round n/d (d > 0) to the nearest integer, halves to the even neighbour
RoundHalfEven(n, d) ==
    LET f == n \div d
        r == n % d
    IN  IF 2 * r < d THEN f
        ELSE IF 2 * r > d THEN f + 1
        ELSE IF f % 2 = 0 THEN f ELSE f + 1

\* Series.round(2)
Round2(x) == IF IsNum(x) THEN Num(RoundHalfEven(100 * x.n, x.d), 100) ELSE x

\* the square root of a non-negative rational, kept symbolic unless it is 0
Sqrt(x) == IF IsNum(x) /\ x.n > 0 THEN [k |-> "sqrt", n |-> x.n, d |-> x.d] ELSE x

----------------------------------------------------------------------------
(* Raw records, as the ingestion adapter hands them over *)

\* a raw cell: a JSON number, a text, or None
RawNum(i) == [t |-> "num", i |-> i, s |-> ""]
RawStr(s) == [t |-> "str", i |-> 0, s |-> s]
RawNone == [t |-> "none", i |-> 0, s |-> ""]

\* the calendar days strftime('%Y-%m-%d') can name here, in calendar order
DateText ==
    << "2024-01-01", "2024-01-02", "2024-01-03", "2024-01-04", "2024-01-05",
       "2024-01-06", "2024-01-07", "2024-01-08", "2024-01-09", "2024-01-10",
       "2024-01-11", "2024-01-12", "2024-01-13", "2024-01-14", "2024-01-15",
       "2024-01-16", "2024-01-17", "2024-01-18", "2024-01-19", "2024-01-20",
       "2024-01-21", "2024-01-22", "2024-01-23", "2024-01-24", "2024-01-25",
       "2024-01-26", "2024-01-27", "2024-01-28", "2024-01-29", "2024-01-30",
       "2024-01-31" >>

\* pd.to_datetime on a '%Y-%m-%d' text: the day's ordinal
ToDatetime(s) == CHOOSE i \in 1..Len(DateText) : DateText[i] = s

\* the texts a price or volume field may hold, with their numeric reading
NumberText == {"0", "3", "2.5"}
ParseNumber(s) ==
    CASE s = "0"   -> Int2F(0)
      [] s = "3"   -> Int2F(3)
      [] s = "2.5" -> Num(5, 2)

\* pd.to_numeric(errors='coerce') on one cell
ToNumeric(c) ==
    CASE c.t = "num" -> Int2F(c.i)
      [] c.t = "str" -> IF c.s \in NumberText THEN ParseNumber(c.s) ELSE NaN
      [] OTHER       -> NaN

Min(a, b) == IF a < b THEN a ELSE b
Max(a, b) == IF a > b THEN a ELSE b

\* price the trend-shaped series start from
BasePrice == 30
\* volume of every row of a trend-shaped series
BaseVolume == 1000

\* close of row i (1-based) of the series that moves by d1 for the first k
\* days and by d2 afterwards
TrendClose(i, k, d1, d2) == BasePrice + d1 * Min(i - 1, k) + d2 * Max(i - 1 - k, 0)

\* n consecutive days in ascending order (the adapter asks for "sort": "asc"),
\* each opening at the previous close; row p (if any) has no close
TrendSeries(n, k, d1, d2, p) ==
    [i \in 1..n |->
        LET c == TrendClose(i, k, d1, d2)
            o == IF i = 1 THEN BasePrice ELSE TrendClose(i - 1, k, d1, d2)
        IN  [date   |-> DateText[i],
             open   |-> RawNum(o),
             close  |-> IF i = p THEN RawNone ELSE RawNum(c),
             high   |-> RawNum(Max(o, c) + 1),
             low    |-> RawNum(Min(o, c) - 1),
             volume |-> RawNum(BaseVolume)]]

StepSet == {-1, 0, 1}

\* a series with one change of direction and every close present, or a
\* series of one direction with one close absent
TrendInputs ==
    { TrendSeries(n, k, d1, d2, 0) :
        n \in 1..MaxRows, k \in 0..(MaxRows - 1), d1 \in StepSet, d2 \in StepSet }
    \cup
    { TrendSeries(n, 0, d, d, p) : n \in 1..MaxRows, d \in StepSet, p \in 1..MaxRows }

\* the volumes a day may report: none traded, the usual volume, four times
\* the usual volume, or no figure at all
VolumeSet == {RawNum(0), RawNum(BaseVolume), RawNum(4 * BaseVolume), RawNone}

\* n consecutive days of flat prices whose volume is v1 for the first k
\* days and v2 afterwards
VolumeSeries(n, k, v1, v2) ==
    [i \in 1..n |->
        [date   |-> DateText[i],
         open   |-> RawNum(BasePrice),
         close  |-> RawNum(BasePrice),
         high   |-> RawNum(BasePrice + 1),
         low    |-> RawNum(BasePrice - 1),
         volume |-> IF i <= k THEN v1 ELSE v2]]

VolumeInputs ==
    { VolumeSeries(n, k, v1, v2) :
        n \in 1..MaxVolumeRows, k \in 0..(MaxVolumeRows - 1),
        v1 \in VolumeSet, v2 \in VolumeSet }

\* free-form records: any order of dates, repeated dates, zero opens,
\* numeric and unparseable text
ShortRecords ==
    [date   : {DateText[i] : i \in 1..MaxShort},
     open   : {RawNum(0), RawNum(2)},
     close  : {RawNum(0), RawNum(3), RawStr("2.5"), RawStr("N/A")},
     high   : {RawNum(4)},
     low    : {RawNum(1)},
     volume : {RawNum(BaseVolume)}]

ShortInputs == UNION { [1..n -> ShortRecords] : n \in 0..MaxShort }

----------------------------------------------------------------------------
(* DataFrames *)

\* pd.DataFrame(): no columns, no rows
EmptyFrame == [c \in {} |-> <<>>]

NRows(t) == IF DOMAIN t = {} THEN 0 ELSE Len(t[CHOOSE c \in DOMAIN t : TRUE])

\* DataFrame.empty
IsEmpty(t) == NRows(t) = 0

UnsortedOrders(dates, S) == {[i \in 1..Cardinality(S) |-> i]}

\* the row orders sort_values('date') may produce: ascending by date, rows
\* of equal date in any relative order (the default sort is not stable)
RECURSIVE SortOrders(_, _)
SortOrders(dates, S) ==
    IF S = {} THEN {<<>>}
    ELSE LET m == CHOOSE i \in S : \A j \in S : dates[i] <= dates[j]
         IN  UNION { { <<i>> \o o : o \in SortOrders(dates, S \ {i}) } :
                     i \in {j \in S : dates[j] = dates[m]} }

RawColumns == {"date", "open", "close", "high", "low", "volume"}
NumericColumns == {"open", "close", "high", "low", "volume"}
DerivedColumns == {"price_change", "price_change_pct", "daily_range", "daily_range_pct"}

\* percentage of x in the open o, rounded to 2 decimals
PctOfOpen(x, o) == Round2(FMul(FDiv(x, o), Int2F(100)))

\* lines 24-33: the columns of pd.DataFrame(data_list) after to_datetime
\* and to_numeric, in input order
TypedColumns(list) ==
    [c \in RawColumns |->
        [i \in 1..Len(list) |->
            IF c = "date" THEN ToDatetime(list[i].date) ELSE ToNumeric(list[i][c])]]

DerivedFrameOverwritingClose(typed) ==
    LET n == Len(typed["date"])
    IN  [c \in RawColumns \cup DerivedColumns |->
            [i \in 1..n |->
                CASE c \in {"close", "price_change"} ->
                        FSub(typed["close"][i], typed["open"][i])
                  [] c \in RawColumns \ {"close"} -> typed[c][i]
                  [] c = "price_change_pct" ->
                        PctOfOpen(FSub(typed["close"][i], typed["open"][i]), typed["open"][i])
                  [] c = "daily_range" -> FSub(typed["high"][i], typed["low"][i])
                  [] c = "daily_range_pct" ->
                        PctOfOpen(FSub(typed["high"][i], typed["low"][i]), typed["open"][i])]]

\* lines 36-39: the typed columns with the per-row derived fields added
DerivedFrame(typed) ==
    LET n == Len(typed["date"])
    IN  [c \in RawColumns \cup DerivedColumns |->
            [i \in 1..n |->
                CASE c \in RawColumns -> typed[c][i]
                  [] c = "price_change" -> FSub(typed["close"][i], typed["open"][i])
                  [] c = "price_change_pct" ->
                        PctOfOpen(FSub(typed["close"][i], typed["open"][i]), typed["open"][i])
                  [] c = "daily_range" -> FSub(typed["high"][i], typed["low"][i])
                  [] c = "daily_range_pct" ->
                        PctOfOpen(FSub(typed["high"][i], typed["low"][i]), typed["open"][i])]]

\* lines 24-39, in input order
TypedFrame(list) == DerivedFrame(TypedColumns(list))

\* the rows of a table as records of date, open, close, high, low, volume:
\* Timestamps and floats, the derived fields dropped
StripDerived(t) == [i \in 1..NRows(t) |-> [c \in RawColumns |-> t[c][i]]]

\* lines 24-33 on records that are typed already: to_datetime leaves a
\* Timestamp and to_numeric leaves a float (NaN included) as it is
RetypedColumns(records) ==
    [c \in RawColumns |-> [i \in 1..Len(records) |-> records[i][c]]]

\* reset_index(drop=True) after reordering the rows by `order`
Reorder(t, order) == [c \in DOMAIN t |-> [i \in 1..Len(order) |-> t[c][order[i]]]]

----------------------------------------------------------------------------
(* Rolling-window indicators *)

MaWindows == {5, 10, 20}
RsiWindow == 14
VolatilityWindow == 10
VolumeWindow == 5

RECURSIVE SumRange(_, _, _)
\* s[lo] + ... + s[hi]
SumRange(s, lo, hi) == IF lo > hi THEN Int2F(0) ELSE FAdd(s[lo], SumRange(s, lo + 1, hi))

\* the rows a trailing window of w rows ending at row i covers (1-based)
WindowRows(i, w) == (i - w + 1)..i

\* a window yields a value only when it is full and holds no missing value
\* (min_periods defaults to the window size)
WindowFull(s, i, w) == i >= w /\ \A j \in WindowRows(i, w) : ~IsNaN(s[j])

WindowPartial(s, i, w) == \A j \in WindowRows(i, w) \cap DOMAIN s : ~IsNaN(s[j])

\* Series.rolling(window=w).mean()
RollingMeanPartial(s, w) ==
    [i \in 1..Len(s) |->
        IF WindowPartial(s, i, w)
        THEN FDiv(SumRange(s, Max(i - w + 1, 1), i), Int2F(Min(i, w)))
        ELSE NaN]

RollingMean(s, w) ==
    [i \in 1..Len(s) |->
        IF WindowFull(s, i, w)
        THEN FDiv(SumRange(s, i - w + 1, i), Int2F(w))
        ELSE NaN]

\* Series.rolling(window=w).std(): the sample standard deviation (ddof = 1)
RollingStd(s, w) ==
    [i \in 1..Len(s) |->
        IF WindowFull(s, i, w)
        THEN LET sq == [j \in 1..Len(s) |-> FMul(s[j], s[j])]
                 sm == SumRange(s, i - w + 1, i)
                 ss == SumRange(sq, i - w + 1, i)
             IN  Sqrt(FDiv(FSub(ss, FDiv(FMul(sm, sm), Int2F(w))), Int2F(w - 1)))
        ELSE NaN]

\* Series.diff(): the first row has no predecessor
Diff(s) == [i \in 1..Len(s) |-> IF i = 1 THEN NaN ELSE FSub(s[i], s[i - 1])]

\* delta.where(delta > 0, 0): rows where the condition is false (a missing
\* delta included) are replaced by 0
Gain(delta) ==
    [i \in 1..Len(delta) |-> IF FGt(delta[i], Int2F(0)) THEN delta[i] ELSE Int2F(0)]

LossNotNegated(delta) ==
    [i \in 1..Len(delta) |-> IF FLt(delta[i], Int2F(0)) THEN delta[i] ELSE Int2F(0)]

\* -delta.where(delta < 0, 0)
Loss(delta) ==
    [i \in 1..Len(delta) |-> FNeg(IF FLt(delta[i], Int2F(0)) THEN delta[i] ELSE Int2F(0))]

RelativeStrengthGuarded(gain, loss) == FDivNoInf(gain, loss)

\* rs = gain / loss
RelativeStrength(gain, loss) == FDiv(gain, loss)

\* 100 - (100 / (1 + rs))
RsiOf(rs) == FSub(Int2F(100), FDiv(Int2F(100), FAdd(Int2F(1), rs)))

\* lines 59-63
Rsi(close) ==
    LET delta == Diff(close)
        gain == RollingMean(Gain(delta), RsiWindow)
        loss == RollingMean(Loss(delta), RsiWindow)
    IN  [i \in 1..Len(close) |-> RsiOf(RelativeStrength(gain[i], loss[i]))]

VolumeRatioInverted(volume, vma) ==
    [i \in 1..Len(volume) |-> FDiv(vma[i], volume[i])]

\* line 70: df['volume'] / df['volume_ma']
VolumeRatio(volume, vma) ==
    [i \in 1..Len(volume) |-> FDiv(volume[i], vma[i])]

FeatureColumns ==
    {"ma_5", "ma_10", "ma_20", "rsi", "volatility", "volume_ma", "volume_ratio"}

\* lines 53-70: the table with the indicator columns set
WithFeatures(t) ==
    LET vma == RollingMean(t["volume"], VolumeWindow)
    IN  [c \in DOMAIN t \cup FeatureColumns |->
            CASE c = "ma_5"  -> RollingMean(t["close"], 5)
              [] c = "ma_10" -> RollingMean(t["close"], 10)
              [] c = "ma_20" -> RollingMean(t["close"], 20)
              [] c = "rsi"   -> Rsi(t["close"])
              [] c = "volatility" -> RollingStd(t["close"], VolatilityWindow)
              [] c = "volume_ma" -> vma
              [] c = "volume_ratio" -> VolumeRatio(t["volume"], vma)
              [] OTHER -> t[c]]

----------------------------------------------------------------------------
(* Pattern detection *)

MinPatternRows == 5
RsiOverbought == 70
RsiOversold == 30

\* Series.tail(k)
SeriesTail(s, k) == IF Len(s) <= k THEN s ELSE SubSeq(s, Len(s) - k + 1, Len(s))

\* Series.dropna()
DropNa(s) == SelectSeq(s, LAMBDA x : ~IsNaN(x))

SeriesMeanKeepingNa(s) ==
    IF Len(DropNa(s)) < Len(s) \/ Len(s) = 0 THEN NaN
    ELSE FDiv(SumRange(s, 1, Len(s)), Int2F(Len(s)))

\* Series.mean(): missing values are skipped; no value at all gives NaN
SeriesMean(s) ==
    LET v == DropNa(s)
    IN  IF Len(v) = 0 THEN NaN ELSE FDiv(SumRange(v, 1, Len(v)), Int2F(Len(v)))

TooShortOffByOne(t) == IsEmpty(t) \/ NRows(t) < MinPatternRows - 1

\* line 113: df.empty or len(df) < 5
TooShort(t) == IsEmpty(t) \/ NRows(t) < MinPatternRows

TrendLabelStrict(closes) ==
    IF \A i \in 1..(Len(closes) - 1) : FLt(closes[i], closes[i + 1]) THEN "upward"
    ELSE IF \A i \in 1..(Len(closes) - 1) : FGt(closes[i], closes[i + 1]) THEN "downward"
    ELSE "sideways"

\* lines 121-126
TrendLabel(closes) ==
    IF \A i \in 1..(Len(closes) - 1) : FLe(closes[i], closes[i + 1]) THEN "upward"
    ELSE IF \A i \in 1..(Len(closes) - 1) : FGe(closes[i], closes[i + 1]) THEN "downward"
    ELSE "sideways"

\* lines 131-136
VolumeLabel(r) ==
    IF FGt(r, Num(3, 2)) THEN "high"
    ELSE IF FLt(r, Num(1, 2)) THEN "low"
    ELSE "normal"

\* lines 142-147
RsiLabel(v) ==
    IF FGt(v, Int2F(RsiOverbought)) THEN "overbought"
    ELSE IF FLt(v, Int2F(RsiOversold)) THEN "oversold"
    ELSE "neutral"

\* Python truth value of a float: 0.0 is false, everything else is true
Truthy(v) == ~(IsNum(v) /\ v.n = 0)

NoLabels == [c \in {} |-> ""]

\* lines 116-149: the labels of a table of at least 5 rows
PatternsOf(t) ==
    LET hasTrend == Len(SeriesTail(t["close"], 5)) >= 5
        hasVol == "volume_ratio" \in DOMAIN t
        rsiVals == IF "rsi" \in DOMAIN t THEN DropNa(t["rsi"]) ELSE <<>>
        hasRsi == Len(rsiVals) > 0 /\ Truthy(rsiVals[Len(rsiVals)])
        keys == (IF hasTrend THEN {"trend"} ELSE {})
                \cup (IF hasVol THEN {"volume_activity"} ELSE {})
                \cup (IF hasRsi THEN {"rsi_signal"} ELSE {})
    IN  [c \in keys |->
            CASE c = "trend" -> TrendLabel(SeriesTail(t["close"], 5))
              [] c = "volume_activity" -> VolumeLabel(SeriesMean(SeriesTail(t["volume_ratio"], 5)))
              [] c = "rsi_signal" -> RsiLabel(rsiVals[Len(rsiVals)])]

----------------------------------------------------------------------------
(* Statistics *)

\* Timestamp.strftime('%Y-%m-%d')
Strftime(d) == DateText[d]

\* df['date'].min() and df['date'].max()
MinDate(s) == CHOOSE d \in {s[i] : i \in 1..Len(s)} : \A i \in 1..Len(s) : d <= s[i]
MaxDate(s) == CHOOSE d \in {s[i] : i \in 1..Len(s)} : \A i \in 1..Len(s) : d >= s[i]

\* the values of a series that are present
PresentValues(s) == {s[i] : i \in {j \in 1..Len(s) : ~IsNaN(s[j])}}

\* Series.max() and Series.min(): missing values are skipped; no value at
\* all gives NaN
SeriesMax(s) ==
    IF PresentValues(s) = {} THEN NaN
    ELSE CHOOSE x \in PresentValues(s) : \A y \in PresentValues(s) : FLe(y, x)

SeriesMin(s) ==
    IF PresentValues(s) = {} THEN NaN
    ELSE CHOOSE x \in PresentValues(s) : \A y \in PresentValues(s) : FLe(x, y)

\* Series.std(): the sample standard deviation of the values present,
\* NaN for fewer than two of them
SeriesStd(s) ==
    LET v == DropNa(s)
        n == Len(v)
        sq == [j \in 1..n |-> FMul(v[j], v[j])]
        sm == SumRange(v, 1, n)
        ss == SumRange(sq, 1, n)
    IN  IF n < 2 THEN NaN
        ELSE Sqrt(FDiv(FSub(ss, FDiv(FMul(sm, sm), Int2F(n))), Int2F(n - 1)))

\* line 100: (last close - first open) / first open * 100, on numpy scalars
TotalReturn(t) ==
    LET n == NRows(t)
    IN  FMul(FDiv(FSub(t["close"][n], t["open"][1]), t["open"][1]), Int2F(100))

\* return {}
NoStats == [c \in {} |-> NaN]

\* lines 81-105: the summary of a table that is not empty (the nested
\* mapping, flattened)
StatsOf(t) ==
    [total_records    |-> NRows(t),
     start            |-> Strftime(MinDate(t["date"])),
     end              |-> Strftime(MaxDate(t["date"])),
     current_price    |-> t["close"][NRows(t)],
     max_price        |-> SeriesMax(t["high"]),
     min_price        |-> SeriesMin(t["low"]),
     avg_price        |-> SeriesMean(t["close"]),
     price_volatility |-> SeriesStd(t["close"]),
     avg_volume       |-> SeriesMean(t["volume"]),
     max_volume       |-> SeriesMax(t["volume"]),
     min_volume       |-> SeriesMin(t["volume"]),
     total_return     |-> TotalReturn(t),
     best_day         |-> SeriesMax(t["price_change_pct"]),
     worst_day        |-> SeriesMin(t["price_change_pct"]),
     avg_daily_change |-> SeriesMean(t["price_change_pct"])]

StatisticsCountingNoRows(t) ==
    IF IsEmpty(t) THEN [total_records |-> 0] ELSE StatsOf(t)

\* lines 78-107
Statistics(t) == IF IsEmpty(t) THEN NoStats ELSE StatsOf(t)

----------------------------------------------------------------------------
(* The agents: values *)

\* Config.API_DELAY (0.5 s) and Config.RATE_LIMIT_DELAY
API_DELAY == Num(1, 2)
RATE_LIMIT_DELAY == 60

\* the status codes a response may carry; 0 stands for no response at all
\* (requests.get raised)
StatusCodes == {200, 404, 429}
NoResponse == 0

\* what one call of _make_request did, in order
SleepEvent(secs) == [e |-> "sleep", status |-> 0, secs |-> secs]
GetEvent(status) == [e |-> "get", status |-> status, secs |-> Int2F(0)]
CheckEvent(status) == [e |-> "check", status |-> status, secs |-> Int2F(0)]

RetryOnAnyError(status) == status >= 400

\* line 34: response.status_code == 429
RateLimited(status) == status = 429

\* response.raise_for_status() raises for a 4xx or 5xx status
StatusRaises(status) == status >= 400

\* the JSON bodies of a response: a mapping with or without "status" and
\* "results" (sound: every entry of "results" is a mapping with the key
\* "t"), or something that is no mapping
NoBody == [shape |-> "none", status |-> "", results |-> 0, sound |-> TRUE]
BodySet ==
    { [shape |-> "mapping", status |-> st, results |-> n, sound |-> TRUE] :
        st \in {"OK", "NOT_FOUND", ""}, n \in 0..MaxResults }
    \cup { [shape |-> "mapping", status |-> "OK", results |-> n, sound |-> FALSE] :
        n \in 1..MaxResults }
    \cup { [shape |-> "list", status |-> "", results |-> 0, sound |-> TRUE] }

\* how _make_request ended: with the parsed body or with an exception
NoOutcome == [kind |-> "none", name |-> "", body |-> NoBody]
Returned(body) == [kind |-> "json", name |-> "", body |-> body]
Raised(name) == [kind |-> "exception", name |-> name, body |-> NoBody]

\* what an ingestion method hands back
NoResult == [method |-> "", type |-> "none", error |-> FALSE, msg |-> "", n |-> 0]
DataMapping(method) ==
    [method |-> method, type |-> "mapping", error |-> FALSE, msg |-> "", n |-> 0]
ErrorMapping(method, msg) ==
    [method |-> method, type |-> "mapping", error |-> TRUE, msg |-> msg, n |-> 0]
RecordList(method, n) ==
    [method |-> method, type |-> "list", error |-> FALSE, msg |-> "", n |-> n]
Propagated(method, name) ==
    [method |-> method, type |-> "raised", error |-> FALSE, msg |-> name, n |-> 0]

\* the exception the try block of an ingestion method ends with, "" if none:
\* the one _make_request raised, AttributeError from data.get on a body
\* that is no mapping, or the one raised on reading an unsound entry of
\* "results"
TryFailure(method, o) ==
    IF o.kind = "exception" THEN o.name
    ELSE IF o.body.shape # "mapping" THEN "AttributeError"
    ELSE IF method = "get_current_price" /\ o.body.status = "OK" /\ ~o.body.sound
    THEN "AttributeError"
    ELSE IF method = "get_historical_data" /\ o.body.status = "OK" /\ ~o.body.sound
    THEN "KeyError"
    ELSE ""

IngestionResultUncaught(method, o) ==
    IF TryFailure(method, o) # "" THEN Propagated(method, TryFailure(method, o))
    ELSE CASE method = "get_daily_open_close" ->
                IF o.body.status = "OK" THEN DataMapping(method)
                ELSE ErrorMapping(method, "Khong the lay du lieu")
           [] method = "get_current_price" ->
                IF o.body.status = "OK" /\ o.body.results > 0 THEN DataMapping(method)
                ELSE ErrorMapping(method, "Khong the lay du lieu hien tai")
           [] method = "get_historical_data" ->
                IF o.body.status = "OK" /\ o.body.results > 0
                THEN RecordList(method, o.body.results)
                ELSE RecordList(method, 0)

\* stock_agent.py lines 53-73, 79-98, 104-133: the return value of an
\* ingestion method whose request ended as o
IngestionResult(method, o) ==
    IF TryFailure(method, o) # ""
    THEN IF method = "get_historical_data" THEN RecordList(method, 0)
         ELSE ErrorMapping(method, TryFailure(method, o))
    ELSE CASE method = "get_daily_open_close" ->
                IF o.body.status = "OK" THEN DataMapping(method)
                ELSE ErrorMapping(method, "Khong the lay du lieu")
           [] method = "get_current_price" ->
                IF o.body.status = "OK" /\ o.body.results > 0 THEN DataMapping(method)
                ELSE ErrorMapping(method, "Khong the lay du lieu hien tai")
           [] method = "get_historical_data" ->
                IF o.body.status = "OK" /\ o.body.results > 0
                THEN RecordList(method, o.body.results)
                ELSE RecordList(method, 0)

ErrorKeyIgnored(m) == FALSE

\* gemini_agent.py line 30: "error" in stock_data
HasErrorKey(m) == m.error

\* what analyze_stock_data and answer_stock_question return
NoAnalysis == [by |-> "", kind |-> "none", msg |-> ""]
SkippedAnalysis(msg) == [by |-> "analyze_stock_data", kind |-> "skipped", msg |-> msg]
ModelText(by) == [by |-> by, kind |-> "text", msg |-> ""]
ModelFailure(by) == [by |-> by, kind |-> "model_error", msg |-> "Exception"]

ExceptHandlerBreaking(exc) == "ended"

\* main.py lines 236-240: where the loop stands after its except clauses
\* handled exc
ExceptHandler(exc) == IF exc = "KeyboardInterrupt" THEN "ended" ELSE "prompt"

\* the words command.split() yields for the commands typed here
Commands ==
    { <<>>, <<"quit">>, <<"QUIT">>, <<"quit", "now">>, <<"hello">>,
      <<"price", "aapl">>, <<"price">>,
      <<"daily", "aapl", "2024-01-02">>,
      <<"history", "aapl", "5">>, <<"history", "aapl", "five">>,
      <<"analyze", "aapl">>,
      <<"chart", "aapl", "5">>, <<"chart", "aapl", "five">>,
      <<"dashboard", "aapl", "5">>, <<"dashboard", "aapl", "five">>,
      <<"ask", "outlook", "about", "aapl">>, <<"ask", "outlook", "about">>,
      <<"ask", "outlook">>,
      <<"models">> }

\* str.lower() on those words
Lower(w) == IF w = "QUIT" THEN "quit" ELSE w

\* int(text) succeeds
IsInt(w) == w \in {"5"}

\* command.lower() == 'quit'
IsQuit(c) == Len(c) = 1 /\ Lower(c[1]) = "quit"

\* the text after 'about' is not empty
HasSymbolAfterAbout(c) ==
    \E i \in 1..Len(c) : c[i] = "about" /\ i < Len(c)

\* main.py lines 153-234: the calls the branch taken for command c makes,
\* in order; no call at all for a command that is not recognised
Plan(c) ==
    LET action == Lower(c[1])
        n == Len(c)
    IN  CASE action = "price" /\ n >= 2 -> <<"price">>
          [] action = "daily" /\ n >= 3 -> <<"daily">>
          [] action = "history" /\ n >= 3 -> <<"int", "history", "process">>
          [] action = "analyze" /\ n >= 2 -> <<"price", "analyze">>
          [] action = "chart" /\ n >= 3 ->
                <<"int", "history", "process", "features", "plot">>
          [] action = "dashboard" /\ n >= 3 ->
                <<"int", "history", "process", "features", "stats", "dashboard">>
          [] action = "ask" ->
                IF HasSymbolAfterAbout(c) THEN <<"ask_price", "ask_history", "llm">>
                ELSE <<"llm">>
          [] action = "models" -> <<"list_models">>
          [] OTHER -> <<>>

\* line 234: the command matched no branch
Unrecognised(c) ==
    LET action == Lower(c[1])
        n == Len(c)
    IN  ~ \/ action = "price" /\ n >= 2
          \/ action = "daily" /\ n >= 3
          \/ action \in {"history", "chart", "dashboard"} /\ n >= 3
          \/ action = "analyze" /\ n >= 2
          \/ action \in {"ask", "models"}

IngestionSteps == {"price", "daily", "history", "ask_price", "ask_history"}
\* steps done by the data processor and the visualizer, which may raise
ExternalSteps == {"process", "features", "stats", "plot", "dashboard"}

Method(step) ==
    CASE step \in {"price", "ask_price"} -> "get_current_price"
      [] step = "daily" -> "get_daily_open_close"
      [] step \in {"history", "ask_history"} -> "get_historical_data"

\* the agents at rest
AgentIdle ==
    /\ loop = "prompt"
    /\ command = <<>>
    /\ todo = <<>>
    /\ pending = ""
    /\ call = "none"
    /\ req = "idle"
    /\ log = <<>>
    /\ response = NoResponse
    /\ outcome = NoOutcome
    /\ result = NoResult
    /\ analysis = NoAnalysis
    /\ llm_calls = 0
    /\ exit_cause = "none"
    /\ reported = "none"

----------------------------------------------------------------------------
(* Operations *)

Init ==
    /\ data_list \in TrendInputs \cup VolumeInputs \cup ShortInputs
    /\ heap = <<>>
    /\ df = 0
    /\ df_with_features = 0
    /\ stats = NoStats
    /\ patterns = NoLabels
    /\ rerun = 0
    /\ pc = "fetched"
    /\ AgentIdle

\* df = self.data_processor.process_daily_data(historical_data):
\* builds a new DataFrame and leaves the list of records alone
process_daily_data ==
    /\ pc = "fetched"
    /\ IF data_list = <<>>
       THEN heap' = Append(heap, EmptyFrame)
       ELSE LET t == TypedFrame(data_list)
            IN  \E order \in SortOrders(t["date"], 1..Len(data_list)) :
                    heap' = Append(heap, Reorder(t, order))
    /\ df' = Len(heap) + 1
    /\ pc' = "processed"
    /\ UNCHANGED <<data_list, df_with_features, stats, patterns, rerun>>
    /\ UNCHANGED agent_vars

\* df_with_features = self.data_processor.create_ml_features(df):
\* assigns the indicator columns to the DataFrame it was given and
\* returns that same object
create_ml_features ==
    /\ pc = "processed"
    /\ IF IsEmpty(heap[df])
       THEN heap' = heap
       ELSE heap' = [heap EXCEPT ![df] = WithFeatures(heap[df])]
    /\ df_with_features' = df
    /\ pc' = "featured"
    /\ UNCHANGED <<data_list, df, stats, patterns, rerun>>
    /\ UNCHANGED agent_vars

\* patterns = self.data_processor.detect_patterns(table), on the table
\* with or without the indicator columns: reads it only
detect_patterns ==
    /\ pc \in {"processed", "featured", "summarised"}
    /\ patterns' = IF TooShort(heap[df]) THEN NoLabels ELSE PatternsOf(heap[df])
    /\ pc' = "detected"
    /\ UNCHANGED <<data_list, heap, df, df_with_features, stats, rerun>>
    /\ UNCHANGED agent_vars

\* stats = self.data_processor.calculate_statistics(table), on the table
\* with or without the indicator columns: reads it only
calculate_statistics ==
    /\ pc \in {"processed", "featured"}
    /\ stats' = Statistics(heap[df])
    /\ pc' = "summarised"
    /\ UNCHANGED <<data_list, heap, df, df_with_features, patterns, rerun>>
    /\ UNCHANGED agent_vars

\* the pipeline run again on its own output: process_daily_data on the
\* rows of the table, stripped of every derived field
reprocess_output ==
    /\ pc = "featured"
    /\ ~IsEmpty(heap[df_with_features])
    /\ LET t == DerivedFrame(RetypedColumns(StripDerived(heap[df_with_features])))
       IN  \E order \in SortOrders(t["date"], 1..NRows(t)) :
               heap' = Append(heap, Reorder(t, order))
    /\ rerun' = Len(heap) + 1
    /\ pc' = "reprocessed"
    /\ UNCHANGED <<data_list, df, df_with_features, stats, patterns>>
    /\ UNCHANGED agent_vars

\* ... followed by create_ml_features on the table just built
refeature_output ==
    /\ pc = "reprocessed"
    /\ heap' = [heap EXCEPT ![rerun] = WithFeatures(heap[rerun])]
    /\ pc' = "rerun"
    /\ UNCHANGED <<data_list, df, df_with_features, stats, patterns, rerun>>
    /\ UNCHANGED agent_vars

Next ==
    \/ process_daily_data
    \/ create_ml_features
    \/ calculate_statistics
    \/ detect_patterns
    \/ reprocess_output
    \/ refeature_output

Spec == Init /\ [][Next]_vars

----------------------------------------------------------------------------
(* Operations of the command loop and the agents *)

AgentInit ==
    /\ data_list = <<>>
    /\ heap = <<>>
    /\ df = 0
    /\ df_with_features = 0
    /\ stats = NoStats
    /\ patterns = NoLabels
    /\ rerun = 0
    /\ pc = "idle"
    /\ AgentIdle

\* command = input(...).strip(), the 'quit' test, command.split() and the
\* choice of the branch
read_command ==
    /\ loop = "prompt"
    /\ \E c \in Commands :
        /\ command' = c
        /\ IF IsQuit(c)
           THEN loop' = "ended" /\ exit_cause' = "quit"
                /\ todo' = <<>> /\ reported' = "none"
           ELSE IF c = <<>>
           THEN loop' = "prompt" /\ exit_cause' = exit_cause
                /\ todo' = <<>> /\ reported' = "none"
           ELSE loop' = "handling" /\ exit_cause' = exit_cause
                /\ todo' = Plan(c)
                /\ reported' = IF Unrecognised(c) THEN "invalid" ELSE "none"
    /\ pending' = ""
    /\ log' = <<>>
    /\ response' = NoResponse
    /\ outcome' = NoOutcome
    /\ result' = NoResult
    /\ analysis' = NoAnalysis
    /\ llm_calls' = 0
    /\ UNCHANGED <<call, req>>
    /\ UNCHANGED pipe_vars

\* input() raises (end of input)
input_fails ==
    /\ loop = "prompt"
    /\ loop' = "raising"
    /\ pending' = "EOFError"
    /\ UNCHANGED <<command, todo, call, req, log, response, outcome, result,
                   analysis, llm_calls, exit_cause, reported>>
    /\ UNCHANGED pipe_vars

\* days = int(parts[2])
parse_days ==
    /\ loop = "handling"
    /\ call = "none"
    /\ todo # <<>>
    /\ Head(todo) = "int"
    /\ IF IsInt(command[3])
       THEN todo' = Tail(todo) /\ loop' = loop /\ pending' = pending
       ELSE todo' = todo /\ loop' = "raising" /\ pending' = "ValueError"
    /\ UNCHANGED <<command, call, req, log, response, outcome, result,
                   analysis, llm_calls, exit_cause, reported>>
    /\ UNCHANGED pipe_vars

\* an ingestion method is called and enters _make_request
begin_request ==
    /\ loop = "handling"
    /\ call = "none"
    /\ todo # <<>>
    /\ Head(todo) \in IngestionSteps
    /\ call' = Method(Head(todo))
    /\ req' = "delay"
    /\ log' = <<>>
    /\ response' = NoResponse
    /\ outcome' = NoOutcome
    /\ result' = NoResult
    /\ UNCHANGED <<loop, command, todo, pending, analysis, llm_calls,
                   exit_cause, reported>>
    /\ UNCHANGED pipe_vars

\* time.sleep(Config.API_DELAY)
make_request_delay ==
    /\ loop = "handling"
    /\ req = "delay"
    /\ log' = Append(log, SleepEvent(API_DELAY))
    /\ req' = "get"
    /\ UNCHANGED <<loop, command, todo, pending, call, response, outcome,
                   result, analysis, llm_calls, exit_cause, reported>>
    /\ UNCHANGED pipe_vars

\* response = requests.get(url, params=params) and the test for 429
make_request_get ==
    /\ loop = "handling"
    /\ req = "get"
    /\ \E st \in StatusCodes \cup {NoResponse} :
        /\ log' = Append(log, GetEvent(st))
        /\ response' = st
        /\ IF st = NoResponse
           THEN req' = "raised" /\ outcome' = Raised("ConnectionError")
           ELSE /\ req' = IF RateLimited(st) THEN "backoff" ELSE "check"
                /\ outcome' = outcome
    /\ UNCHANGED <<loop, command, todo, pending, call, result, analysis,
                   llm_calls, exit_cause, reported>>
    /\ UNCHANGED pipe_vars

\* time.sleep(Config.RATE_LIMIT_DELAY)
make_request_backoff ==
    /\ loop = "handling"
    /\ req = "backoff"
    /\ log' = Append(log, SleepEvent(Int2F(RATE_LIMIT_DELAY)))
    /\ req' = "retry"
    /\ UNCHANGED <<loop, command, todo, pending, call, response, outcome,
                   result, analysis, llm_calls, exit_cause, reported>>
    /\ UNCHANGED pipe_vars

\* response = requests.get(url, params=params), the second time
make_request_retry ==
    /\ loop = "handling"
    /\ req = "retry"
    /\ \E st \in StatusCodes \cup {NoResponse} :
        /\ log' = Append(log, GetEvent(st))
        /\ response' = st
        /\ IF st = NoResponse
           THEN req' = "raised" /\ outcome' = Raised("ConnectionError")
           ELSE req' = "check" /\ outcome' = outcome
    /\ UNCHANGED <<loop, command, todo, pending, call, result, analysis,
                   llm_calls, exit_cause, reported>>
    /\ UNCHANGED pipe_vars

\* response.raise_for_status(); return response.json()
make_request_check ==
    /\ loop = "handling"
    /\ req = "check"
    /\ log' = Append(log, CheckEvent(response))
    /\ IF StatusRaises(response)
       THEN req' = "raised" /\ outcome' = Raised("HTTPError")
       ELSE \/ req' = "raised" /\ outcome' = Raised("JSONDecodeError")
            \/ \E b \in BodySet : req' = "returned" /\ outcome' = Returned(b)
    /\ UNCHANGED <<loop, command, todo, pending, call, response, result,
                   analysis, llm_calls, exit_cause, reported>>
    /\ UNCHANGED pipe_vars

\* the ingestion method returns to its caller; main.py goes on with the
\* rest of the branch only `if result:` / `if historical_data:`
ingestion_return ==
    /\ loop = "handling"
    /\ req \in {"raised", "returned"}
    /\ result' = IngestionResult(call, outcome)
    /\ call' = "none"
    /\ req' = "idle"
    /\ IF result'.type = "raised"
       THEN loop' = "raising" /\ pending' = result'.msg /\ todo' = todo
       ELSE /\ loop' = loop
            /\ pending' = pending
            /\ todo' = IF Head(todo) = "history" /\ result'.n = 0
                       THEN <<>> ELSE Tail(todo)
    /\ UNCHANGED <<command, log, response, outcome, analysis, llm_calls,
                   exit_cause, reported>>
    /\ UNCHANGED pipe_vars

\* a call into the data processor or the visualizer: returns or raises
external_step ==
    /\ loop = "handling"
    /\ call = "none"
    /\ todo # <<>>
    /\ Head(todo) \in ExternalSteps
    /\ \/ todo' = Tail(todo) /\ loop' = loop /\ pending' = pending
       \/ todo' = todo /\ loop' = "raising" /\ pending' = "Exception"
    /\ UNCHANGED <<command, call, req, log, response, outcome, result,
                   analysis, llm_calls, exit_cause, reported>>
    /\ UNCHANGED pipe_vars

\* analysis = gemini_agent.analyze_stock_data(current_data)
analyze_stock_data ==
    /\ loop = "handling"
    /\ call = "none"
    /\ todo # <<>>
    /\ Head(todo) = "analyze"
    /\ IF HasErrorKey(result)
       THEN /\ analysis' = SkippedAnalysis(result.msg)
            /\ llm_calls' = llm_calls
       ELSE /\ llm_calls' = llm_calls + 1
            /\ analysis' \in {ModelText("analyze_stock_data"),
                              ModelFailure("analyze_stock_data")}
    /\ todo' = Tail(todo)
    /\ UNCHANGED <<loop, command, pending, call, req, log, response, outcome,
                   result, exit_cause, reported>>
    /\ UNCHANGED pipe_vars

\* answer = gemini_agent.answer_stock_question(question[, symbol]), after
\* its calls of the stock agent
answer_stock_question ==
    /\ loop = "handling"
    /\ call = "none"
    /\ todo # <<>>
    /\ Head(todo) = "llm"
    /\ llm_calls' = llm_calls + 1
    /\ analysis' \in {ModelText("answer_stock_question"),
                      ModelFailure("answer_stock_question")}
    /\ todo' = Tail(todo)
    /\ UNCHANGED <<loop, command, pending, call, req, log, response, outcome,
                   result, exit_cause, reported>>
    /\ UNCHANGED pipe_vars

\* models = gemini_agent.get_available_models(), which returns [] when
\* the listing fails
get_available_models ==
    /\ loop = "handling"
    /\ call = "none"
    /\ todo # <<>>
    /\ Head(todo) = "list_models"
    /\ todo' = Tail(todo)
    /\ UNCHANGED <<loop, command, pending, call, req, log, response, outcome,
                   result, analysis, llm_calls, exit_cause, reported>>
    /\ UNCHANGED pipe_vars

\* the branch is done: back to the top of `while True`
finish_command ==
    /\ loop = "handling"
    /\ call = "none"
    /\ todo = <<>>
    /\ loop' = "prompt"
    /\ UNCHANGED <<command, todo, pending, call, req, log, response, outcome,
                   result, analysis, llm_calls, exit_cause, reported>>
    /\ UNCHANGED pipe_vars

\* Ctrl-C while waiting for input or while handling a command: not an
\* Exception, so no `except Exception` on the way stops it
keyboard_interrupt ==
    /\ loop \in {"prompt", "handling"}
    /\ loop' = "raising"
    /\ pending' = "KeyboardInterrupt"
    /\ call' = "none"
    /\ req' = "idle"
    /\ UNCHANGED <<command, todo, log, response, outcome, result, analysis,
                   llm_calls, exit_cause, reported>>
    /\ UNCHANGED pipe_vars

\* except KeyboardInterrupt: break / except Exception as e: print(...)
catch_exception ==
    /\ loop = "raising"
    /\ loop' = ExceptHandler(pending)
    /\ exit_cause' = IF pending = "KeyboardInterrupt" THEN "keyboard_interrupt"
                     ELSE IF loop' = "ended" THEN "exception" ELSE exit_cause
    /\ reported' = IF pending = "KeyboardInterrupt" THEN reported ELSE "error"
    /\ todo' = <<>>
    /\ UNCHANGED <<command, pending, call, req, log, response, outcome, result,
                   analysis, llm_calls>>
    /\ UNCHANGED pipe_vars

AgentNext ==
    \/ read_command
    \/ input_fails
    \/ parse_days
    \/ begin_request
    \/ make_request_delay
    \/ make_request_get
    \/ make_request_backoff
    \/ make_request_retry
    \/ make_request_check
    \/ ingestion_return
    \/ external_step
    \/ analyze_stock_data
    \/ answer_stock_question
    \/ get_available_models
    \/ finish_command
    \/ keyboard_interrupt
    \/ catch_exception

AgentSpec == AgentInit /\ [][AgentNext]_vars

----------------------------------------------------------------------------
(* Properties *)

\* the table the program holds once process_daily_data has returned
Table == heap[df]
HasTable == pc # "fetched"
HasFeatures == HasTable /\ "rsi" \in DOMAIN Table

\* exact comparisons of two rational cells, by cross-multiplication
RatLess(x, y) == IsNum(x) /\ IsNum(y) /\ x.n * y.d < y.n * x.d
RatEq(x, y) == IsNum(x) /\ IsNum(y) /\ x.n * y.d = y.n * x.d
RatLeq(x, y) == RatLess(x, y) \/ RatEq(x, y)

\* the rows of a series that hold a value
Present(s) == {i \in 1..Len(s) : ~IsNaN(s[i])}
LastPresent(s) == CHOOSE i \in Present(s) : \A j \in Present(s) : j <= i

\* C1: for a table of at least 5 rows whose rsi column has a non-missing
\* value, detect_patterns labels rsi_signal by the most recent non-missing
\* RSI value v: overbought if v > 70, oversold if v < 30 (v = 0 included),
\* neutral otherwise.
C1_RsiSignalFromLastValue ==
    (pc = "detected" /\ NRows(Table) >= 5 /\ "rsi" \in DOMAIN Table
        /\ Present(Table["rsi"]) # {})
    => LET v == Table["rsi"][LastPresent(Table["rsi"])]
       IN  /\ "rsi_signal" \in DOMAIN patterns
           /\ patterns["rsi_signal"] =
                IF RatLess(Int2F(70), v) THEN "overbought"
                ELSE IF RatLess(v, Int2F(30)) THEN "oversold"
                ELSE "neutral"

\* the dates of the input records, as texts
InputDates == {data_list[i].date : i \in 1..Len(data_list)}
InputDatesDistinct == Cardinality(InputDates) = Len(data_list)

\* C2 as stated: for every non-empty input the returned table is strictly
\* ascending by date and has as many rows as the input has distinct dates.
C2_StrictlyAscendingDeduplicated ==
    (HasTable /\ data_list # <<>>)
    => /\ \A i \in 1..(NRows(Table) - 1) : Table["date"][i] < Table["date"][i + 1]
       /\ NRows(Table) = Cardinality(InputDates)

\* C2 as amended: for every non-empty input the returned table is ascending
\* by date (equal dates adjacent), holds every input record's date exactly as
\* often as the input does, so has as many rows as the input has records;
\* it is strictly ascending, with one row per distinct date, when no two
\* input records share a date.
C2_AscendingSameRows ==
    (HasTable /\ data_list # <<>>)
    => /\ \A i \in 1..(NRows(Table) - 1) : Table["date"][i] <= Table["date"][i + 1]
       /\ NRows(Table) = Len(data_list)
       /\ \A k \in 1..Len(DateText) :
            Cardinality({i \in 1..NRows(Table) : Table["date"][i] = k})
            = Cardinality({i \in 1..Len(data_list) : data_list[i].date = DateText[k]})
       /\ InputDatesDistinct
            => /\ \A i \in 1..(NRows(Table) - 1) :
                    Table["date"][i] < Table["date"][i + 1]
               /\ NRows(Table) = Cardinality(InputDates)

\* an input given out of date order has been put in order
C2_Witness ==
    /\ pc = "processed"
    /\ Len(data_list) >= 2
    /\ data_list[1].date = DateText[2]
    /\ data_list[2].date = DateText[1]
    /\ Table["date"] = <<1, 2>>

\* C3: every row of the returned table whose open is 0 has missing
\* price_change_pct and daily_range_pct (never an infinity).
C3_ZeroOpenGivesMissing ==
    (HasTable /\ data_list # <<>>)
    => \A i \in 1..NRows(Table) :
          RatEq(Table["open"][i], Int2F(0))
          => /\ IsNaN(Table["price_change_pct"][i])
             /\ IsNaN(Table["daily_range_pct"][i])

\* C4: neither step modifies what it receives, and each returns a new
\* object: process_daily_data leaves the record list as it was and returns
\* a table that did not exist before; create_ml_features leaves the table
\* it was given as it was and returns another object.
C4_StepsLeaveInputsAlone ==
    [][ /\ pc = "fetched" /\ pc' = "processed"
            => data_list' = data_list /\ df' \notin DOMAIN heap
        /\ pc = "processed" /\ pc' = "featured"
            => heap'[df] = heap[df] /\ df_with_features' # df ]_vars

\* the closes of the last 5 rows of the table
LastFive == [i \in 1..5 |-> Table["close"][NRows(Table) - 5 + i]]

\* C5: for a table of at least 5 rows detect_patterns emits one trend label
\* from the last 5 closes: upward iff they never fall (flat included),
\* downward iff they never rise and are not flat, sideways otherwise.
C5_TrendLabel ==
    (pc = "detected" /\ NRows(Table) >= 5)
    => LET c == LastFive
           neverFalls == \A i \in 1..4 : RatLeq(c[i], c[i + 1])
           neverRises == \A i \in 1..4 : RatLeq(c[i + 1], c[i])
           flat == \A i \in 1..4 : RatEq(c[i], c[i + 1])
       IN  /\ "trend" \in DOMAIN patterns
           /\ patterns["trend"] \in {"upward", "downward", "sideways"}
           /\ patterns["trend"] = "upward" <=> neverFalls
           /\ patterns["trend"] = "downward" <=> (neverRises /\ ~flat)
           /\ patterns["trend"] = "sideways" <=> (~neverFalls /\ ~neverRises)

\* a flat tail has been labelled upward
C5_Witness ==
    /\ pc = "detected"
    /\ NRows(Table) >= 5
    /\ \A i \in 1..4 : RatEq(LastFive[i], LastFive[i + 1])
    /\ "trend" \in DOMAIN patterns
    /\ patterns["trend"] = "upward"

\* C6: detect_patterns returns no label at all for a table of fewer than
\* 5 rows, the empty table included, whatever columns it has.
C6_NoLabelsUnderFiveRows ==
    (pc = "detected" /\ NRows(Table) < 5) => DOMAIN patterns = {}

\* a 4-row table with the indicator columns has been given no label
C6_Witness ==
    /\ pc = "detected"
    /\ NRows(Table) = 4
    /\ "volume_ratio" \in DOMAIN Table
    /\ "rsi" \in DOMAIN Table
    /\ DOMAIN patterns = {}

\* a raw cell to_numeric cannot read as a number
Unreadable(c) == c.t = "none" \/ (c.t = "str" /\ c.s \notin NumberText)

MaColumn(w) == CASE w = 5 -> "ma_5" [] w = 10 -> "ma_10" [] w = 20 -> "ma_20"

\* the rows from i on whose trailing window of w rows still covers row i
CoveringRows(i, w) == {j \in i..(i + w - 1) : j <= NRows(Table)}

\* C7: in the table with the indicator columns a missing close propagates:
\* the row's price_change, and every moving average, volatility and RSI
\* value whose trailing window holds that close or one of its day-over-day
\* differences, is missing; and every unreadable close has become missing.
C7_MissingClosePropagates ==
    HasFeatures
    => /\ \A i \in 1..NRows(Table) :
            IsNaN(Table["close"][i])
            => /\ IsNaN(Table["price_change"][i])
               /\ \A w \in MaWindows : \A j \in CoveringRows(i, w) :
                    IsNaN(Table[MaColumn(w)][j])
               /\ \A j \in CoveringRows(i, VolatilityWindow) :
                    IsNaN(Table["volatility"][j])
               /\ \A j \in CoveringRows(i, RsiWindow + 1) : IsNaN(Table["rsi"][j])
       /\ Cardinality({i \in 1..NRows(Table) : IsNaN(Table["close"][i])})
            = Cardinality({i \in 1..Len(data_list) : Unreadable(data_list[i].close)})

RECURSIVE DenProduct(_, _, _)
\* the product of the denominators of s[lo..hi]
DenProduct(s, lo, hi) == IF lo > hi THEN 1 ELSE s[lo].d * DenProduct(s, lo + 1, hi)

RECURSIVE ScaledSum(_, _, _, _)
\* D times the sum of s[lo..hi], for D a multiple of every denominator
ScaledSum(s, lo, hi, D) ==
    IF lo > hi THEN 0 ELSE s[lo].n * (D \div s[lo].d) + ScaledSum(s, lo + 1, hi, D)

\* x is the arithmetic mean of the rational cells s[lo..hi]
IsMeanOf(x, s, lo, hi) ==
    LET D == DenProduct(s, lo, hi)
    IN  IsNum(x) /\ x.n * D * (hi - lo + 1) = x.d * ScaledSum(s, lo, hi, D)

\* C8: for each window w in {5, 10, 20} and each row of the table with the
\* indicator columns: from the w-th row on (index >= w-1) ma_w is the
\* arithmetic mean of the closes of that row and the w-1 rows before it
\* (missing when one of them is missing); before the w-th row it is missing.
C8_MovingAverageIsWindowMean ==
    HasFeatures
    => \A w \in MaWindows : \A i \in 1..NRows(Table) :
          LET ma == Table[MaColumn(w)][i]
              c == Table["close"]
          IN  IF i < w THEN IsNaN(ma)
              ELSE IF \A j \in (i - w + 1)..i : IsNum(c[j])
                   THEN IsMeanOf(ma, c, i - w + 1, i)
                   ELSE IsNaN(ma)

\* the 20-row average of a series that is not flat has been computed
C8_Witness ==
    /\ pc = "featured"
    /\ NRows(Table) > 20
    /\ IsNum(Table["ma_20"][21])
    /\ IsNum(Table["ma_5"][5])
    /\ ~RatEq(Table["ma_20"][21], Table["ma_20"][20])

\* the close rose (fell) from row j-1 to row j
Rose(j) == j >= 2 /\ RatLess(Table["close"][j - 1], Table["close"][j])
Fell(j) == j >= 2 /\ RatLess(Table["close"][j], Table["close"][j - 1])

\* C9: in the table with the indicator columns, RSI is missing for the
\* rows before the 14th, is never infinite, is 100 where the 14-row window
\* holds no loss but some gain, and is missing where it holds neither.
C9_RsiSaturatesAtHundred ==
    HasFeatures
    => \A i \in 1..NRows(Table) :
          LET rsi == Table["rsi"][i]
              window == (i - RsiWindow + 1)..i
              someGain == \E j \in window : Rose(j)
              someLoss == \E j \in window : Fell(j)
          IN  /\ ~IsInf(rsi)
              /\ i < RsiWindow => IsNaN(rsi)
              /\ (i >= RsiWindow /\ ~someLoss /\ someGain) => rsi = Int2F(100)
              /\ (i >= RsiWindow /\ ~someLoss /\ ~someGain) => IsNaN(rsi)

\* both cases have occurred in one table: a flat window (RSI missing)
\* followed by a window of gains only (RSI 100)
C9_Witness ==
    /\ pc = "featured"
    /\ NRows(Table) > RsiWindow
    /\ IsNaN(Table["rsi"][RsiWindow])
    /\ \E i \in (RsiWindow + 1)..NRows(Table) : Table["rsi"][i] = Int2F(100)

\* C10: for every input whose closes are all present, every non-missing
\* RSI value of the table lies in [0, 100].
C10_RsiWithinBounds ==
    (HasFeatures /\ \A i \in 1..NRows(Table) : IsNum(Table["close"][i]))
    => \A i \in 1..NRows(Table) :
          LET rsi == Table["rsi"][i]
          IN  ~IsNaN(rsi) => RatLeq(Int2F(0), rsi) /\ RatLeq(rsi, Int2F(100))

\* an RSI strictly inside the interval has been computed from closes that
\* are all present
C10_Witness ==
    /\ pc = "featured"
    /\ \A i \in 1..NRows(Table) : IsNum(Table["close"][i])
    /\ \E i \in 1..NRows(Table) :
          RatLess(Int2F(0), Table["rsi"][i]) /\ RatLess(Table["rsi"][i], Int2F(100))

\* C11: for every non-empty table calculate_statistics returns
\* total_return = (last close - first open) / first open x 100 (on a
\* single-row table, of that row's close and open), and a missing
\* total_return, not an infinite one, when the first open is 0.
C11_TotalReturn ==
    (pc = "summarised" /\ ~IsEmpty(Table))
    => LET o == Table["open"][1]
           c == Table["close"][NRows(Table)]
           tr == stats["total_return"]
       IN  /\ RatEq(o, Int2F(0)) => IsNaN(tr)
           /\ (IsNum(o) /\ o.n # 0 /\ IsNum(c))
                => /\ IsNum(tr)
                   /\ tr.n * (c.d * o.n) = tr.d * 100 * (c.n * o.d - o.n * c.d)

\* C13: empty input is a normal outcome at every stage: an empty record
\* list gives an empty table, create_ml_features returns an empty table for
\* an empty table, and calculate_statistics returns the empty summary for it.
C13_EmptyInEmptyOut ==
    /\ (HasTable /\ data_list = <<>>) => IsEmpty(Table)
    /\ (HasTable /\ df_with_features # 0 /\ data_list = <<>>)
            => IsEmpty(heap[df_with_features])
    /\ (pc = "summarised" /\ IsEmpty(Table)) => stats = NoStats

\* the empty record list has gone through all three steps
C13_Witness ==
    /\ pc = "summarised"
    /\ data_list = <<>>
    /\ df_with_features # 0
    /\ IsEmpty(heap[df_with_features])
    /\ stats = NoStats

\* the volume_ratio values present in the last 5 rows of the table
LastRatios ==
    SelectSeq([i \in 1..5 |-> Table["volume_ratio"][NRows(Table) - 5 + i]],
              LAMBDA x : IsNum(x))

\* the mean of the rational cells of s is above (below) the rational p/q
MeanAbove(s, p, q) ==
    LET D == DenProduct(s, 1, Len(s))
    IN  Len(s) > 0 /\ q * ScaledSum(s, 1, Len(s), D) > p * D * Len(s)
MeanBelow(s, p, q) ==
    LET D == DenProduct(s, 1, Len(s))
    IN  Len(s) > 0 /\ q * ScaledSum(s, 1, Len(s), D) < p * D * Len(s)

\* C12: for a table of at least 5 rows with a volume_ratio column,
\* detect_patterns labels volume_activity high iff the mean of the
\* non-missing volume_ratio values of the last 5 rows is > 1.5, low iff it
\* is < 0.5, and normal otherwise; without the column there is no such label.
C12_VolumeActivity ==
    (pc = "detected" /\ NRows(Table) >= 5)
    => IF "volume_ratio" \in DOMAIN Table
       THEN /\ "volume_activity" \in DOMAIN patterns
            /\ patterns["volume_activity"] \in {"high", "low", "normal"}
            /\ patterns["volume_activity"] = "high" <=> MeanAbove(LastRatios, 3, 2)
            /\ patterns["volume_activity"] = "low" <=> MeanBelow(LastRatios, 1, 2)
       ELSE "volume_activity" \notin DOMAIN patterns

\* a tail with both missing and present ratios has been labelled high
C12_Witness ==
    /\ pc = "detected"
    /\ NRows(Table) >= 5
    /\ "volume_ratio" \in DOMAIN Table
    /\ Len(LastRatios) \in 2..4
    /\ patterns["volume_activity"] = "high"

\* C15: in the table with the indicator columns, volume_ratio is missing
\* (never infinite) on every row where volume_ma is 0 or missing, and is
\* volume / volume_ma on every other row (volumes are never negative).
C15_VolumeRatio ==
    HasFeatures
    => \A i \in 1..NRows(Table) :
          LET vma == Table["volume_ma"][i]
              v == Table["volume"][i]
              r == Table["volume_ratio"][i]
          IN  /\ ~IsInf(r)
              /\ IF IsNaN(vma) \/ RatEq(vma, Int2F(0))
                 THEN IsNaN(r)
                 ELSE IsNum(v) /\ IsNum(r) /\ r.n * vma.n * v.d = r.d * v.n * vma.d

\* one table holds a row whose 5-day volume average is 0 and a row whose
\* ratio is a number
C15_Witness ==
    /\ pc = "featured"
    /\ \E i \in 1..NRows(Table) :
          RatEq(Table["volume_ma"][i], Int2F(0)) /\ IsNaN(Table["volume_ratio"][i])
    /\ \E i \in 1..NRows(Table) :
          RatLess(Int2F(1), Table["volume_ratio"][i])

Events(kind) == {i \in DOMAIN log : log[i].e = kind}

\* C17: one call of _make_request sends at most two GETs; a second GET
\* follows only a first response with status 429 and only after a sleep
\* of RATE_LIMIT_DELAY; no other status, and no second response, is
\* retried; raise_for_status is applied once, after the last GET, to the
\* response of that GET, and the call returns a body only past that check
C17_AtMostTwoRequests ==
    LET gets == Events("get")
        checks == Events("check")
    IN  /\ Cardinality(gets) <= 2
        /\ \A i, j \in gets :
              i < j => /\ log[i].status = 429
                       /\ \E k \in (i + 1)..(j - 1) :
                             log[k] = SleepEvent(Int2F(RATE_LIMIT_DELAY))
        /\ Cardinality(checks) <= 1
        /\ \A c \in checks :
              /\ c = Len(log)
              /\ c - 1 \in gets
              /\ log[c].status = log[c - 1].status
        /\ req = "returned" => \E c \in checks : log[c].status < 400
        /\ outcome = Raised("HTTPError") <=> \E c \in checks : log[c].status >= 400

\* a rate-limited request whose retry was rate-limited too: two GETs, then
\* the status check raises
C17_Witness ==
    /\ Cardinality(Events("get")) = 2
    /\ log[Len(log)] = CheckEvent(429)
    /\ outcome = Raised("HTTPError")

\* the request behind the result did not yield usable data: an exception,
\* a body without status "OK", or results that are missing, empty or
\* unsound where results are read
RequestFailed ==
    \/ outcome.kind = "exception"
    \/ outcome.body.shape # "mapping"
    \/ outcome.body.status # "OK"
    \/ /\ result.method # "get_daily_open_close"
       /\ outcome.body.results = 0 \/ ~outcome.body.sound

\* C18: an ingestion method never raises; after a request that raised or
\* answered with a non-OK or empty body, get_daily_open_close and
\* get_current_price return a mapping with the key "error" and
\* get_historical_data returns the empty list; a mapping without "error"
\* (and a list that is not empty) is returned only for a body with
\* status "OK"
C18_FailuresReportedAsData ==
    result.type # "none" =>
        /\ result.type # "raised"
        /\ RequestFailed =>
              IF result.method = "get_historical_data"
              THEN result.type = "list" /\ result.n = 0
              ELSE result.type = "mapping" /\ result.error
        /\ (result.type = "mapping" /\ ~result.error) \/ result.n > 0 =>
              outcome.kind = "json" /\ outcome.body.status = "OK"

\* get_current_price after a request that ended in a HTTP error
C18_Witness ==
    /\ result = ErrorMapping("get_current_price", "HTTPError")
    /\ outcome = Raised("HTTPError")

\* C16: analyze_stock_data on a mapping with the key "error" does not call
\* the model and returns a text that carries the error message of the
\* mapping; the model is called (once) only for a mapping without "error"
C16_ErrorSkipsAnalysis ==
    Len(command) > 0 /\ Lower(command[1]) = "analyze" =>
        /\ analysis.kind = "none" => llm_calls = 0
        /\ analysis.kind # "none" =>
              /\ analysis.by = "analyze_stock_data"
              /\ IF result.error
                 THEN /\ llm_calls = 0
                      /\ analysis.kind = "skipped"
                      /\ analysis.msg = result.msg
                 ELSE /\ llm_calls = 1
                      /\ analysis.kind \in {"text", "model_error"}

\* the price request failed and the analysis was skipped with its message
C16_Witness ==
    /\ analysis = SkippedAnalysis("ConnectionError")
    /\ result = ErrorMapping("get_current_price", "ConnectionError")
    /\ llm_calls = 0

\* C19: the loop ends only on the command 'quit' or on a keyboard
\* interrupt; any other exception raised while a command is read or handled
\* is reported and followed by the next prompt; an empty command leads
\* straight to the next prompt and an unrecognised one is reported as
\* invalid and handled to its end
C19_LoopEndsOnlyOnQuitOrInterrupt ==
    [][ /\ loop' = "ended" /\ loop # "ended" =>
              \/ loop = "prompt" /\ IsQuit(command')
                 /\ exit_cause' = "quit"
              \/ loop = "raising" /\ pending = "KeyboardInterrupt"
                 /\ exit_cause' = "keyboard_interrupt"
        /\ loop = "raising" /\ pending # "KeyboardInterrupt" =>
              loop' = "prompt" /\ reported' = "error"
        /\ loop = "prompt" /\ loop' = "prompt" => command' = <<>>
        /\ loop = "prompt" /\ loop' = "handling" /\ Unrecognised(command') =>
              reported' = "invalid" /\ todo' = <<>>
      ]_vars

\* DAYS was not an integer: the error was reported and the prompt is back
C19_Witness ==
    /\ loop = "prompt"
    /\ reported = "error"
    /\ pending = "ValueError"
    /\ command = <<"history", "aapl", "five">>

====
